---- MODULE Spec2Model ----
(***************************************************************************)
(* Model of auto_clean_downloads.py: the DownloadsCleaner pipeline         *)
(* (clean_temp_files, find_duplicates, categorize_files, save_history)     *)
(* and undo_cleanup, over a filesystem that holds the source directory,    *)
(* the folders under <source>/Cleaned and the history file                 *)
(* <source>/.cleanup_history.json, which is itself a file of the source    *)
(* directory.                                                              *)
(*                                                                         *)
(* A file name is [base, sfx, ext]: "a.txt" is base "a", sfx <<>>, ext     *)
(* ".txt"; "a_1.txt" is sfx <<1>>; "a_1_2.txt" is sfx <<1, 2>>.            *)
(* A path is <<folder, name>>, folder "src" for the source directory and   *)
(* a category name or "Duplicates" for <target>/<folder>.                  *)
(* A file is [bytes, readable, sessions]: sessions is the parsed JSON list *)
(* of the history file and <<>> for every other file.                      *)
(* Timestamps are a logical clock that ticks at every download and at      *)
(* every invocation.                                                       *)
(* The specification Spec holds merge_pdfs at its default False and runs    *)
(* one invocation at a time; SpecMerge adds --merge-pdfs, SpecPreview a    *)
(* second invocation behind a preview, SpecExample the directory of the    *)
(* end-to-end example, and SpecRace two invocations whose steps interleave.*)
(***************************************************************************)
EXTENDS Integers, Sequences, FiniteSets, TLC

\* ------------------------------------------------------------ bounds ----
\* the downloads and invocations of a behaviour
MaxEvents == 5

\* the invocations of a behaviour of SpecRace, of which two can run at a time
MaxRaceEvents == 2

\* the downloads and invocations of a behaviour of SpecMerge, which starts on a
\* directory that holds three files
MaxMergeEvents == 2

\* --------------------------------------------------------- constants ----
\* the invocations of the tool: Spec runs them one after the other, as Main
Procs == {"first", "second"}
Main == "first"

CategoryOrder ==
    <<"Images", "Documents", "PDFs", "Archives", "Installers", "Video", "Audio", "Code">>

CATEGORIES ==
    [c \in {"Images", "Documents", "PDFs", "Archives", "Installers", "Video", "Audio", "Code"} |->
       CASE c = "Images" -> {".jpg", ".jpeg", ".png", ".gif", ".bmp", ".svg", ".webp", ".ico", ".tiff", ".heic"}
         [] c = "Documents" -> {".doc", ".docx", ".txt", ".rtf", ".odt", ".pages", ".tex", ".wpd", ".wps"}
         [] c = "PDFs" -> {".pdf"}
         [] c = "Archives" -> {".zip", ".rar", ".7z", ".tar", ".gz", ".bz2", ".xz", ".iso", ".dmg"}
         [] c = "Installers" -> {".exe", ".msi", ".dmg", ".pkg", ".deb", ".rpm", ".appimage"}
         [] c = "Video" -> {".mp4", ".avi", ".mkv", ".mov", ".wmv", ".flv", ".webm", ".m4v", ".mpg", ".mpeg"}
         [] c = "Audio" -> {".mp3", ".wav", ".flac", ".aac", ".ogg", ".wma", ".m4a", ".opus"}
         [] c = "Code" -> {".py", ".js", ".java", ".cpp", ".c", ".h", ".cs", ".php", ".rb", ".go", ".rs",
                           ".swift", ".kt", ".ts", ".jsx", ".tsx", ".html", ".css", ".scss", ".json",
                           ".xml", ".yaml", ".yml", ".sh", ".bat", ".ps1"}]

TEMP_EXTENSIONS == {".crdownload", ".part", ".tmp", ".partial", ".download", ".temp"}

HISTORY_FILE == [base |-> ".cleanup_history", sfx |-> <<>>, ext |-> ".json"]

\* the source directory of the end-to-end example: photo.jpg and photo_copy.jpg
\* have the same bytes
ExampleFiles ==
    { [name |-> [base |-> "photo", sfx |-> <<>>, ext |-> ".jpg"],
       file |-> [bytes |-> 1, readable |-> TRUE, sessions |-> <<>>]],
      [name |-> [base |-> "photo_copy", sfx |-> <<>>, ext |-> ".jpg"],
       file |-> [bytes |-> 1, readable |-> TRUE, sessions |-> <<>>]],
      [name |-> [base |-> "report", sfx |-> <<>>, ext |-> ".pdf"],
       file |-> [bytes |-> 2, readable |-> TRUE, sessions |-> <<>>]],
      [name |-> [base |-> "notes", sfx |-> <<>>, ext |-> ".txt"],
       file |-> [bytes |-> 3, readable |-> TRUE, sessions |-> <<>>]],
      [name |-> [base |-> "partial", sfx |-> <<>>, ext |-> ".crdownload"],
       file |-> [bytes |-> 4, readable |-> TRUE, sessions |-> <<>>]] }

\* the files downloaded where PDFs are merged: two PDF files with the same
\* bytes and a temp file
MergeDownloadable ==
    { [name |-> [base |-> "r", sfx |-> <<>>, ext |-> ".pdf"],
       file |-> [bytes |-> 1, readable |-> TRUE, sessions |-> <<>>]],
      [name |-> [base |-> "s", sfx |-> <<>>, ext |-> ".pdf"],
       file |-> [bytes |-> 1, readable |-> TRUE, sessions |-> <<>>]],
      [name |-> [base |-> "p", sfx |-> <<>>, ext |-> ".TMP"],
       file |-> [bytes |-> 2, readable |-> TRUE, sessions |-> <<>>]] }

\* the files that can be downloaded into the source directory: two files with
\* the same bytes, one of them under another content too, a file that cannot be
\* read, and a temp file whose extension is in upper case
Downloadable ==
    { [name |-> [base |-> "b", sfx |-> <<>>, ext |-> ".dmg"],
       file |-> [bytes |-> 1, readable |-> TRUE, sessions |-> <<>>]],
      [name |-> [base |-> "b", sfx |-> <<>>, ext |-> ".dmg"],
       file |-> [bytes |-> 2, readable |-> TRUE, sessions |-> <<>>]],
      [name |-> [base |-> "c", sfx |-> <<>>, ext |-> ".xyz"],
       file |-> [bytes |-> 1, readable |-> TRUE, sessions |-> <<>>]],
      [name |-> [base |-> "c", sfx |-> <<>>, ext |-> ".xyz"],
       file |-> [bytes |-> 1, readable |-> FALSE, sessions |-> <<>>]],
      [name |-> [base |-> "p", sfx |-> <<>>, ext |-> ".TMP"],
       file |-> [bytes |-> 2, readable |-> TRUE, sessions |-> <<>>]] }

Nowhere == <<"", [base |-> "", sfx |-> <<>>, ext |-> ""]>>

ZeroStats ==
    [categorized |-> 0, temp_removed |-> 0, duplicates_found |-> 0, pdfs_merged |-> 0, errors |-> 0]

NoOptions ==
    [dry_run |-> FALSE, no_temp_clean |-> FALSE, no_duplicates |-> FALSE, merge_pdfs |-> FALSE]

VARIABLES
    fs,           \* the filesystem: path -> file, for the paths that exist
    clock,        \* datetime.now(), one tick per download and per invocation
    pc,           \* pc[p]: where invocation p is
    opt,          \* opt[p]: dry_run, no_temp_clean, no_duplicates, merge_pdfs
    stats,        \* self.stats
    history,      \* self.history, the session log of the run
    file_hashes,  \* self.file_hashes, in insertion order: <<[hash, file_list], ...>>
    files,        \* the rest of the list the current loop iterates over
    operations,   \* the rest of reversed(operations) in undo_cleanup
    loaded,       \* existing_history (save_history) / history (undo_cleanup)
    counts,       \* success_count and error_count of undo_cleanup
    fs0,          \* fs0[p]: the filesystem when invocation p started
    lastrun,      \* the filesystem before the latest saved run, if nothing changed since
    refused       \* refused[p]: the moves the filesystem refused to undo_cleanup so far

vars == <<fs, clock, pc, opt, stats, history, file_hashes, files, operations, loaded,
          counts, fs0, lastrun, refused>>

\* -------------------------------------------------------- filesystem ----
SrcPath(name) == <<"src", name>>

HistoryPath == SrcPath(HISTORY_FILE)

Exists(f, path) == path \in DOMAIN f

StoreFile(list) == [bytes |-> 0, readable |-> TRUE, sessions |-> list]

\* f with file v written at path (created or overwritten)
WriteAt(f, path, v) == [q \in DOMAIN f \cup {path} |-> IF q = path THEN v ELSE f[q]]

\* Path.unlink
Unlink(f, path) == [q \in DOMAIN f \ {path} |-> f[q]]

\* shutil.move of a file: os.rename, which replaces an existing destination file
ShutilMove(f, source, destination) ==
    [q \in (DOMAIN f \ {source}) \cup {destination} |-> IF q = destination THEN f[source] ELSE f[q]]

\* source_path.iterdir() filtered by is_file(): the files of the source directory
SourceFiles(f) == {q \in DOMAIN f : q[1] = "src"}

\* the orders in which a directory listing can come
Orders(S) ==
    {s \in [1..Cardinality(S) -> S] : \A i, j \in 1..Cardinality(S) : i # j => s[i] # s[j]}

\* str.lower() on the extensions of the model
Lower(ext) ==
    CASE ext = ".TMP" -> ".tmp"
      [] ext = ".JPG" -> ".jpg"
      [] ext = ".DMG" -> ".dmg"
      [] OTHER -> ext

Suffix(path) == path[2].ext

IsTemp(path) == Lower(Suffix(path)) \in TEMP_EXTENSIONS

\* ------------------------------------------------------ DownloadsCleaner ----
\* calculate_hash: the SHA-256 digest of the bytes, "" (here <<>>) when the file cannot be read
calculate_hash(f, file_path) ==
    IF Exists(f, file_path) /\ f[file_path].readable
    THEN <<[bytes |-> f[file_path].bytes, sessions |-> f[file_path].sessions]>>
    ELSE <<>>

\* get_category going through the table from its last category to its first
RECURSIVE FirstCategoryFromEnd(_, _)
FirstCategoryFromEnd(ext, i) ==
    IF i > Len(CategoryOrder) THEN "Others"
    ELSE IF ext \in CATEGORIES[CategoryOrder[Len(CategoryOrder) + 1 - i]]
         THEN CategoryOrder[Len(CategoryOrder) + 1 - i]
    ELSE FirstCategoryFromEnd(ext, i + 1)

RECURSIVE FirstCategory(_, _)
FirstCategory(ext, i) ==
    IF i > Len(CategoryOrder) THEN "Others"
    ELSE IF ext \in CATEGORIES[CategoryOrder[i]] THEN CategoryOrder[i]
    ELSE FirstCategory(ext, i + 1)

get_category(file_path) == FirstCategory(Lower(Suffix(file_path)), 1)

\* destination.parent / f"{base}_{counter}{ext}"
Numbered(destination, counter) ==
    <<destination[1], [destination[2] EXCEPT !.sfx = Append(@, counter)]>>

RECURSIVE FreeName(_, _, _)
FreeName(f, destination, counter) ==
    IF Exists(f, Numbered(destination, counter))
    THEN FreeName(f, destination, counter + 1)
    ELSE Numbered(destination, counter)

\* move_file without its name-conflict loop: the requested path is used as it is
ResolveConflictOverwriting(f, destination) == destination

\* the name-conflict loop of move_file
ResolveConflict(f, destination) ==
    IF Exists(f, destination) THEN FreeName(f, destination, 1) ELSE destination

MoveOp(source, destination, now) ==
    [action |-> "move", source |-> source, destination |-> destination, files |-> <<>>,
     timestamp |-> now]

DeleteOp(file_path, now) ==
    [action |-> "delete", source |-> file_path, destination |-> Nowhere, files |-> <<>>,
     timestamp |-> now]

\* move_file that does not look at dry_run before it moves
move_fileInPreview(f, h, st, dry_run, source, destination, io, now) ==
    LET dest == ResolveConflict(f, destination)
        moved == io /\ Exists(f, source)
    IN  [fs |-> IF moved THEN ShutilMove(f, source, dest) ELSE f,
         history |-> IF moved THEN Append(h, MoveOp(source, dest, now)) ELSE h,
         stats |-> IF moved THEN st ELSE [st EXCEPT !.errors = @ + 1],
         result |-> moved]

\* move_file that appends the log entry before it moves the file
move_fileLoggedFirst(f, h, st, dry_run, source, destination, io, now) ==
    LET dest == ResolveConflict(f, destination)
        moved == dry_run \/ (io /\ Exists(f, source))
    IN  [fs |-> IF moved /\ ~dry_run THEN ShutilMove(f, source, dest) ELSE f,
         history |-> Append(h, MoveOp(source, dest, now)),
         stats |-> IF moved THEN st ELSE [st EXCEPT !.errors = @ + 1],
         result |-> moved]

\* move_file: io is FALSE when the filesystem refuses the move
move_file(f, h, st, dry_run, source, destination, io, now) ==
    LET dest == ResolveConflict(f, destination)
        moved == dry_run \/ (io /\ Exists(f, source))
    IN  [fs |-> IF moved /\ ~dry_run THEN ShutilMove(f, source, dest) ELSE f,
         history |-> IF moved THEN Append(h, MoveOp(source, dest, now)) ELSE h,
         stats |-> IF moved THEN st ELSE [st EXCEPT !.errors = @ + 1],
         result |-> moved]

\* remove_file that appends the log entry before it unlinks the file
remove_fileLoggedFirst(f, h, st, dry_run, file_path, io, now) ==
    LET removed == dry_run \/ (io /\ Exists(f, file_path))
    IN  [fs |-> IF removed /\ ~dry_run THEN Unlink(f, file_path) ELSE f,
         history |-> Append(h, DeleteOp(file_path, now)),
         stats |-> IF removed THEN st ELSE [st EXCEPT !.errors = @ + 1],
         result |-> removed]

\* remove_file: io is FALSE when the filesystem refuses the unlink
remove_file(f, h, st, dry_run, file_path, io, now) ==
    LET removed == dry_run \/ (io /\ Exists(f, file_path))
    IN  [fs |-> IF removed /\ ~dry_run THEN Unlink(f, file_path) ELSE f,
         history |-> IF removed THEN Append(h, DeleteOp(file_path, now)) ELSE h,
         stats |-> IF removed THEN st ELSE [st EXCEPT !.errors = @ + 1],
         result |-> removed]

\* self.file_hashes[file_hash].append(file_path), the dict keeping insertion order
AddHash(groups, file_hash, file_path) ==
    IF \E i \in 1..Len(groups) : groups[i].hash = file_hash
    THEN [i \in 1..Len(groups) |->
            IF groups[i].hash = file_hash
            THEN [groups[i] EXCEPT !.file_list = Append(@, file_path)]
            ELSE groups[i]]
    ELSE Append(groups, [hash |-> file_hash, file_list |-> <<file_path>>])

\* the duplicate loop keeping the last file of every group: file_list[:-1] is moved
RECURSIVE DuplicatesOfKeepLast(_)
DuplicatesOfKeepLast(groups) ==
    IF groups = <<>> THEN <<>>
    ELSE SubSeq(Head(groups).file_list, 1, Len(Head(groups).file_list) - 1)
         \o DuplicatesOfKeepLast(Tail(groups))

\* the files the duplicate loop moves: file_list[1:] of every group, in dict order
RECURSIVE DuplicatesOf(_)
DuplicatesOf(groups) ==
    IF groups = <<>> THEN <<>>
    ELSE Tail(Head(groups).file_list) \o DuplicatesOf(Tail(groups))

Outcomes(dry_run) == IF dry_run THEN {TRUE} ELSE BOOLEAN

\* the command lines with --merge-pdfs
MergeOptions ==
    [dry_run : BOOLEAN, no_temp_clean : BOOLEAN, no_duplicates : BOOLEAN, merge_pdfs : {TRUE}]

\* the command lines without --merge-pdfs
Options ==
    [dry_run : BOOLEAN, no_temp_clean : BOOLEAN, no_duplicates : BOOLEAN, merge_pdfs : {FALSE}]

NoRun == [valid |-> FALSE, fs0 |-> <<>>]

Idle == \A p \in Procs : pc[p] = "idle"

\* ------------------------------------------------------------- state ----
Init ==
    /\ fs = <<>>
    /\ clock = 0
    /\ pc = [p \in Procs |-> "idle"]
    /\ opt = [p \in Procs |-> NoOptions]
    /\ stats = [p \in Procs |-> ZeroStats]
    /\ history = [p \in Procs |-> <<>>]
    /\ file_hashes = [p \in Procs |-> <<>>]
    /\ files = [p \in Procs |-> <<>>]
    /\ operations = [p \in Procs |-> <<>>]
    /\ loaded = [p \in Procs |-> <<>>]
    /\ counts = [p \in Procs |-> [success_count |-> 0, error_count |-> 0]]
    /\ fs0 = [p \in Procs |-> <<>>]
    /\ lastrun = NoRun
    /\ refused = [p \in Procs |-> 0]

\* a new file arrives in the source directory while no invocation is running
Download(name, file) ==
    /\ Idle
    /\ clock < MaxEvents
    /\ ~Exists(fs, SrcPath(name))
    /\ fs' = WriteAt(fs, SrcPath(name), file)
    /\ clock' = clock + 1
    /\ lastrun' = NoRun
    /\ UNCHANGED <<pc, opt, stats, history, file_hashes, files, operations, loaded, counts,
                   fs0, refused>>

\* main() building a DownloadsCleaner and calling run()
Run(p, o) ==
    /\ pc[p] = "idle"
    /\ clock < MaxEvents
    /\ clock' = clock + 1
    /\ opt' = [opt EXCEPT ![p] = o]
    /\ stats' = [stats EXCEPT ![p] = ZeroStats]
    /\ history' = [history EXCEPT ![p] = <<>>]
    /\ file_hashes' = [file_hashes EXCEPT ![p] = <<>>]
    /\ fs0' = [fs0 EXCEPT ![p] = fs]
    /\ pc' = [pc EXCEPT ![p] = "clean_temp_files"]
    /\ UNCHANGED <<fs, files, operations, loaded, counts, lastrun, refused>>

\* clean_temp_files: the early return, and the directory listing, of which the
\* loop only acts on the files with a temp extension
CleanTempFiles(p) ==
    /\ pc[p] = "clean_temp_files"
    /\ IF opt[p].no_temp_clean
       THEN /\ pc' = [pc EXCEPT ![p] = "find_duplicates"]
            /\ UNCHANGED files
       ELSE /\ \E order \in Orders({q \in SourceFiles(fs) : IsTemp(q)}) :
                  files' = [files EXCEPT ![p] = order]
            /\ pc' = [pc EXCEPT ![p] = "clean_temp_loop"]
    /\ UNCHANGED <<fs, clock, opt, stats, history, file_hashes, operations, loaded,
                   counts, fs0, lastrun, refused>>

\* one iteration of the loop of clean_temp_files that finds a temp file
CleanTempStep(p) ==
    /\ pc[p] = "clean_temp_loop"
    /\ files[p] # <<>>
    /\ LET file_path == Head(files[p])
       IN  \E io \in Outcomes(opt[p].dry_run) :
              LET r == remove_file(fs, history[p], stats[p], opt[p].dry_run, file_path, io,
                                   clock)
              IN  /\ fs' = r.fs
                  /\ history' = [history EXCEPT ![p] = r.history]
                  /\ stats' = [stats EXCEPT ![p] =
                                 IF r.result THEN [r.stats EXCEPT !.temp_removed = @ + 1]
                                 ELSE r.stats]
    /\ files' = [files EXCEPT ![p] = Tail(@)]
    /\ UNCHANGED <<clock, pc, opt, file_hashes, operations, loaded, counts, fs0,
                   lastrun, refused>>

CleanTempDone(p) ==
    /\ pc[p] = "clean_temp_loop"
    /\ files[p] = <<>>
    /\ pc' = [pc EXCEPT ![p] = "find_duplicates"]
    /\ UNCHANGED <<fs, clock, opt, stats, history, file_hashes, files, operations,
                   loaded, counts, fs0, lastrun, refused>>

\* the hashing loop of find_duplicates over the listing: temp files are skipped
\* and so are the files whose hash is ""
RECURSIVE HashAll(_, _, _)
HashAll(f, listing, groups) ==
    IF listing = <<>> THEN groups
    ELSE LET file_path == Head(listing)
             file_hash == calculate_hash(f, file_path)
         IN  HashAll(f, Tail(listing),
                     IF ~IsTemp(file_path) /\ file_hash # <<>>
                     THEN AddHash(groups, file_hash, file_path)
                     ELSE groups)

\* find_duplicates: the early return, the directory listing and the hashing loop;
\* what is left to do is to move the duplicates
FindDuplicates(p) ==
    /\ pc[p] = "find_duplicates"
    /\ IF opt[p].no_duplicates
       THEN /\ pc' = [pc EXCEPT ![p] = "categorize_files"]
            /\ UNCHANGED <<files, file_hashes>>
       ELSE /\ \E order \in Orders(SourceFiles(fs)) :
                  LET groups == HashAll(fs, order, file_hashes[p])
                  IN  /\ file_hashes' = [file_hashes EXCEPT ![p] = groups]
                      /\ files' = [files EXCEPT ![p] = DuplicatesOf(groups)]
            /\ pc' = [pc EXCEPT ![p] = "duplicates_loop"]
    /\ UNCHANGED <<fs, clock, opt, stats, history, operations, loaded, counts, fs0,
                   lastrun, refused>>

\* the duplicate loop counting the moved file under categorized
DuplicateStepCategorized(p) ==
    /\ pc[p] = "duplicates_loop"
    /\ files[p] # <<>>
    /\ LET duplicate == Head(files[p])
           dest == <<"Duplicates", duplicate[2]>>
       IN  \E io \in Outcomes(opt[p].dry_run) :
              LET r == move_file(fs, history[p], stats[p], opt[p].dry_run, duplicate, dest,
                                 io, clock)
              IN  /\ fs' = r.fs
                  /\ history' = [history EXCEPT ![p] = r.history]
                  /\ stats' = [stats EXCEPT ![p] =
                                 IF r.result THEN [r.stats EXCEPT !.categorized = @ + 1]
                                 ELSE r.stats]
    /\ files' = [files EXCEPT ![p] = Tail(@)]
    /\ UNCHANGED <<clock, pc, opt, file_hashes, operations, loaded, counts, fs0,
                   lastrun, refused>>

\* one duplicate moved to <target>/Duplicates
DuplicateStep(p) ==
    /\ pc[p] = "duplicates_loop"
    /\ files[p] # <<>>
    /\ LET duplicate == Head(files[p])
           dest == <<"Duplicates", duplicate[2]>>
       IN  \E io \in Outcomes(opt[p].dry_run) :
              LET r == move_file(fs, history[p], stats[p], opt[p].dry_run, duplicate, dest,
                                 io, clock)
              IN  /\ fs' = r.fs
                  /\ history' = [history EXCEPT ![p] = r.history]
                  /\ stats' = [stats EXCEPT ![p] =
                                 IF r.result THEN [r.stats EXCEPT !.duplicates_found = @ + 1]
                                 ELSE r.stats]
    /\ files' = [files EXCEPT ![p] = Tail(@)]
    /\ UNCHANGED <<clock, pc, opt, file_hashes, operations, loaded, counts, fs0,
                   lastrun, refused>>

DuplicatesDone(p) ==
    /\ pc[p] = "duplicates_loop"
    /\ files[p] = <<>>
    /\ pc' = [pc EXCEPT ![p] = "categorize_files"]
    /\ UNCHANGED <<fs, clock, opt, stats, history, file_hashes, files, operations,
                   loaded, counts, fs0, lastrun, refused>>

\* categorize_files without the test on the temp extensions
CategorizeFilesNoSkip(p) ==
    /\ pc[p] = "categorize_files"
    /\ \E order \in Orders(SourceFiles(fs)) :
          files' = [files EXCEPT ![p] = order]
    /\ pc' = [pc EXCEPT ![p] = "categorize_loop"]
    /\ UNCHANGED <<fs, clock, opt, stats, history, file_hashes, operations, loaded,
                   counts, fs0, lastrun, refused>>

\* categorize_files: the directory listing, of which the loop skips the files
\* with a temp extension
CategorizeFiles(p) ==
    /\ pc[p] = "categorize_files"
    /\ \E order \in Orders({q \in SourceFiles(fs) : ~IsTemp(q)}) :
          files' = [files EXCEPT ![p] = order]
    /\ pc' = [pc EXCEPT ![p] = "categorize_loop"]
    /\ UNCHANGED <<fs, clock, opt, stats, history, file_hashes, operations, loaded,
                   counts, fs0, lastrun, refused>>

\* one iteration of the loop of categorize_files on a file that is not skipped
CategorizeStep(p) ==
    /\ pc[p] = "categorize_loop"
    /\ files[p] # <<>>
    /\ LET file_path == Head(files[p])
           dest == <<get_category(file_path), file_path[2]>>
       IN  \E io \in Outcomes(opt[p].dry_run) :
              LET r == move_file(fs, history[p], stats[p], opt[p].dry_run, file_path, dest,
                                 io, clock)
              IN  /\ fs' = r.fs
                  /\ history' = [history EXCEPT ![p] = r.history]
                  /\ stats' = [stats EXCEPT ![p] =
                                 IF r.result THEN [r.stats EXCEPT !.categorized = @ + 1]
                                 ELSE r.stats]
    /\ files' = [files EXCEPT ![p] = Tail(@)]
    /\ UNCHANGED <<clock, pc, opt, file_hashes, operations, loaded, counts, fs0,
                   lastrun, refused>>

\* categorize_files returns; merge_pdf_files returns at once unless merge_pdfs is set
CategorizeDone(p) ==
    /\ pc[p] = "categorize_loop"
    /\ files[p] = <<>>
    /\ pc' = [pc EXCEPT ![p] = IF opt[p].merge_pdfs THEN "merge_pdf_files" ELSE "save_history"]
    /\ UNCHANGED <<fs, clock, opt, stats, history, file_hashes, files, operations,
                   loaded, counts, fs0, lastrun, refused>>

\* ------------------------------------------------------- merge_pdf_files ----
\* the order of str on the base names of the model
BaseRank(base) ==
    CASE base = "merged" -> 1
      [] base = "r" -> 2
      [] base = "s" -> 3
      [] OTHER -> 4

\* the order of the numbered suffixes: "x.pdf" < "x_1.pdf" < "x_1_1.pdf" < "x_2.pdf"
RECURSIVE SfxLess(_, _)
SfxLess(a, b) ==
    IF a = <<>> THEN b # <<>>
    ELSE IF b = <<>> THEN FALSE
    ELSE IF Head(a) # Head(b) THEN Head(a) < Head(b)
    ELSE SfxLess(Tail(a), Tail(b))

\* the order sorted() puts the paths of one folder in
PathLess(a, b) ==
    \/ BaseRank(a[2].base) < BaseRank(b[2].base)
    \/ BaseRank(a[2].base) = BaseRank(b[2].base) /\ SfxLess(a[2].sfx, b[2].sfx)

\* sorted(pdf_folder.glob('*.pdf'))
PdfFiles(f) ==
    LET found == {q \in DOMAIN f : q[1] = "PDFs" /\ q[2].ext = ".pdf"}
    IN  CHOOSE order \in Orders(found) :
           \A i, j \in 1..Len(order) : i < j => PathLess(order[i], order[j])

\* the documents appended to the merger in order, as one content
RECURSIVE MergedBytes(_, _)
MergedBytes(f, pdf_files) ==
    IF pdf_files = <<>> THEN 0
    ELSE f[Head(pdf_files)].bytes + 10 * MergedBytes(f, Tail(pdf_files))

\* pdf_folder / f"merged_{timestamp}.pdf"
OutputPath(now) == <<"PDFs", [base |-> "merged", sfx |-> <<now>>, ext |-> ".pdf"]>>

\* the log entry of a merge; 'output' is kept in the destination field
MergeOp(pdf_files, output_path, now) ==
    [action |-> "merge_pdfs", source |-> Nowhere, destination |-> output_path,
     files |-> pdf_files, timestamp |-> now]

\* f after pdf.unlink() on the first n of pdf_files
RECURSIVE UnlinkFirst(_, _, _)
UnlinkFirst(f, pdf_files, n) ==
    IF n = 0 THEN f ELSE UnlinkFirst(Unlink(f, Head(pdf_files)), Tail(pdf_files), n - 1)

\* where merge_pdf_files can end: "unavailable" (pypdf cannot be imported),
\* "merged", and in a non-preview run an exception, before the output is
\* written (-1) or at the unlink of the k-th original once k - 1 are removed
MergeOutcomes(dry_run, n) ==
    {[kind |-> "unavailable", at |-> 0], [kind |-> "merged", at |-> 0]}
    \cup IF dry_run THEN {} ELSE {[kind |-> "failed", at |-> k] : k \in {-1} \cup 1..n}

\* merge_pdf_files with merge_pdfs set
MergePdfFiles(p) ==
    /\ pc[p] = "merge_pdf_files"
    /\ LET pdf_files == PdfFiles(fs)
           output_path == OutputPath(clock)
           merged == [bytes |-> MergedBytes(fs, pdf_files), readable |-> TRUE, sessions |-> <<>>]
       IN  \E out \in MergeOutcomes(opt[p].dry_run, Len(pdf_files)) :
              IF out.kind = "unavailable" \/ Len(pdf_files) < 2
              THEN UNCHANGED <<fs, history, stats>>
              ELSE IF out.kind = "merged"
              THEN /\ fs' = IF opt[p].dry_run THEN fs
                            ELSE UnlinkFirst(WriteAt(fs, output_path, merged), pdf_files,
                                             Len(pdf_files))
                   /\ history' = [history EXCEPT ![p] =
                                    Append(@, MergeOp(pdf_files, output_path, clock))]
                   /\ stats' = [stats EXCEPT ![p].pdfs_merged = Len(pdf_files)]
              ELSE /\ fs' = IF out.at = -1 THEN fs
                            ELSE UnlinkFirst(WriteAt(fs, output_path, merged), pdf_files,
                                             out.at - 1)
                   /\ stats' = [stats EXCEPT ![p].errors = @ + 1]
                   /\ UNCHANGED history
    /\ pc' = [pc EXCEPT ![p] = "save_history"]
    /\ UNCHANGED <<clock, opt, file_hashes, files, operations, loaded, counts, fs0,
                   lastrun, refused>>

\* save_history: the early return, and the read of the existing history
SaveHistory(p) ==
    /\ pc[p] = "save_history"
    /\ IF opt[p].dry_run \/ history[p] = <<>>
       THEN /\ pc' = [pc EXCEPT ![p] = "print_summary"]
            /\ UNCHANGED loaded
       ELSE /\ loaded' = [loaded EXCEPT ![p] =
                            IF Exists(fs, HistoryPath) THEN fs[HistoryPath].sessions ELSE <<>>]
            /\ pc' = [pc EXCEPT ![p] = "save_write"]
    /\ UNCHANGED <<fs, clock, opt, stats, history, file_hashes, files, operations,
                   counts, fs0, lastrun, refused>>

Session(now, ops, st) == [session |-> now, operations |-> ops, stats |-> st]

\* save_history that reads the history file again at the time it writes it
SaveWriteFresh(p) ==
    /\ pc[p] = "save_write"
    /\ fs' = WriteAt(fs, HistoryPath,
                     StoreFile(Append(IF Exists(fs, HistoryPath) THEN fs[HistoryPath].sessions
                                      ELSE <<>>,
                                      Session(clock, history[p], stats[p]))))
    /\ pc' = [pc EXCEPT ![p] = "print_summary"]
    /\ UNCHANGED <<clock, opt, stats, history, file_hashes, files, operations,
                   loaded, counts, fs0, lastrun, refused>>

\* save_history: the session appended and the whole list written back
SaveWrite(p) ==
    /\ pc[p] = "save_write"
    /\ fs' = WriteAt(fs, HistoryPath,
                     StoreFile(Append(loaded[p], Session(clock, history[p], stats[p]))))
    /\ pc' = [pc EXCEPT ![p] = "print_summary"]
    /\ UNCHANGED <<clock, opt, stats, history, file_hashes, files, operations,
                   loaded, counts, fs0, lastrun, refused>>

\* print_summary, and run() returns
RunReturn(p) ==
    /\ pc[p] = "print_summary"
    /\ pc' = [pc EXCEPT ![p] = "idle"]
    /\ lastrun' = IF opt[p].dry_run \/ history[p] = <<>> THEN lastrun
                  ELSE [valid |-> TRUE, fs0 |-> fs0[p]]
    /\ opt' = [opt EXCEPT ![p] = NoOptions]
    /\ stats' = [stats EXCEPT ![p] = ZeroStats]
    /\ history' = [history EXCEPT ![p] = <<>>]
    /\ file_hashes' = [file_hashes EXCEPT ![p] = <<>>]
    /\ loaded' = [loaded EXCEPT ![p] = <<>>]
    /\ fs0' = [fs0 EXCEPT ![p] = <<>>]
    /\ UNCHANGED <<fs, clock, files, operations, counts, refused>>

\* ----------------------------------------------------------- undo_cleanup ----
\* main() calling undo_cleanup
Undo(p, dry_run) ==
    /\ pc[p] = "idle"
    /\ clock < MaxEvents
    /\ clock' = clock + 1
    /\ opt' = [opt EXCEPT ![p] = [NoOptions EXCEPT !.dry_run = dry_run]]
    /\ counts' = [counts EXCEPT ![p] = [success_count |-> 0, error_count |-> 0]]
    /\ fs0' = [fs0 EXCEPT ![p] = fs]
    /\ refused' = [refused EXCEPT ![p] = 0]
    /\ pc' = [pc EXCEPT ![p] = "undo_cleanup"]
    /\ UNCHANGED <<fs, stats, history, file_hashes, files, operations, loaded,
                   lastrun>>

Reverse(s) == [i \in 1..Len(s) |-> s[Len(s) + 1 - i]]

\* undo_cleanup that goes on with an empty list of sessions when there is no
\* history file, and creates the file
UndoReadCreating(p) ==
    /\ pc[p] = "undo_cleanup"
    /\ IF Exists(fs, HistoryPath) /\ fs[HistoryPath].sessions = <<>>
       THEN /\ pc' = [pc EXCEPT ![p] = "exit_1"]
            /\ UNCHANGED <<fs, loaded, operations>>
       ELSE IF ~Exists(fs, HistoryPath)
       THEN /\ fs' = WriteAt(fs, HistoryPath, StoreFile(<<>>))
            /\ pc' = [pc EXCEPT ![p] = "exit_1"]
            /\ UNCHANGED <<loaded, operations>>
       ELSE LET h == fs[HistoryPath].sessions
            IN  /\ loaded' = [loaded EXCEPT ![p] = h]
                /\ operations' = [operations EXCEPT ![p] = Reverse(h[Len(h)].operations)]
                /\ pc' = [pc EXCEPT ![p] = "undo_loop"]
                /\ UNCHANGED fs
    /\ UNCHANGED <<clock, opt, stats, history, file_hashes, files, counts, fs0,
                   lastrun, refused>>

\* the history file is read; a missing file or an empty list ends in sys.exit(1)
UndoRead(p) ==
    /\ pc[p] = "undo_cleanup"
    /\ IF ~Exists(fs, HistoryPath) \/ fs[HistoryPath].sessions = <<>>
       THEN /\ pc' = [pc EXCEPT ![p] = "exit_1"]
            /\ UNCHANGED <<loaded, operations>>
       ELSE LET h == fs[HistoryPath].sessions
            IN  /\ loaded' = [loaded EXCEPT ![p] = h]
                /\ operations' = [operations EXCEPT ![p] = Reverse(h[Len(h)].operations)]
                /\ pc' = [pc EXCEPT ![p] = "undo_loop"]
    /\ UNCHANGED <<fs, clock, opt, stats, history, file_hashes, files, counts, fs0,
                   lastrun, refused>>

\* the loop of undo_cleanup moving the files back whatever dry_run is
UndoStepInPreview(p) ==
    /\ pc[p] = "undo_loop"
    /\ operations[p] # <<>>
    /\ LET op == Head(operations[p])
           source == op.destination
           dest == op.source
           tried == op.action = "move" /\ Exists(fs, source)
       IN  \E io \in IF tried THEN BOOLEAN ELSE {TRUE} :
              LET reversed == op.action = "move" /\ tried /\ io
                  failed == op.action = "delete" \/ (op.action = "move" /\ ~reversed)
              IN  /\ fs' = IF tried /\ io THEN ShutilMove(fs, source, dest) ELSE fs
                  /\ counts' = [counts EXCEPT
                                  ![p].success_count = IF reversed THEN @ + 1 ELSE @,
                                  ![p].error_count = IF failed THEN @ + 1 ELSE @]
                  /\ refused' = [refused EXCEPT ![p] = IF io THEN @ ELSE @ + 1]
    /\ operations' = [operations EXCEPT ![p] = Tail(@)]
    /\ UNCHANGED <<clock, pc, opt, stats, history, file_hashes, files, loaded, fs0,
                   lastrun>>

\* one iteration of the loop over reversed(operations)
UndoStep(p) ==
    /\ pc[p] = "undo_loop"
    /\ operations[p] # <<>>
    /\ LET op == Head(operations[p])
           source == op.destination
           dest == op.source
           tried == op.action = "move" /\ ~opt[p].dry_run /\ Exists(fs, source)
       IN  \E io \in IF tried THEN BOOLEAN ELSE {TRUE} :
              LET reversed == op.action = "move" /\ (opt[p].dry_run \/ (tried /\ io))
                  failed == op.action = "delete" \/ (op.action = "move" /\ ~reversed)
              IN  /\ fs' = IF tried /\ io THEN ShutilMove(fs, source, dest) ELSE fs
                  /\ counts' = [counts EXCEPT
                                  ![p].success_count = IF reversed THEN @ + 1 ELSE @,
                                  ![p].error_count = IF failed THEN @ + 1 ELSE @]
                  /\ refused' = [refused EXCEPT ![p] = IF io THEN @ ELSE @ + 1]
    /\ operations' = [operations EXCEPT ![p] = Tail(@)]
    /\ UNCHANGED <<clock, pc, opt, stats, history, file_hashes, files, loaded, fs0,
                   lastrun>>

\* undo_cleanup that pops the session only when every reversal succeeded
UndoWriteIfClean(p) ==
    /\ pc[p] = "undo_loop"
    /\ operations[p] = <<>>
    /\ IF opt[p].dry_run \/ counts[p].error_count > 0
       THEN UNCHANGED <<fs, loaded>>
       ELSE /\ loaded' = [loaded EXCEPT ![p] = SubSeq(@, 1, Len(@) - 1)]
            /\ fs' = WriteAt(fs, HistoryPath, StoreFile(SubSeq(loaded[p], 1, Len(loaded[p]) - 1)))
    /\ pc' = [pc EXCEPT ![p] = "undo_done"]
    /\ UNCHANGED <<clock, opt, stats, history, file_hashes, files, operations,
                   counts, fs0, lastrun, refused>>

\* the summary is printed; history.pop() and the whole list written back unless dry_run
UndoWrite(p) ==
    /\ pc[p] = "undo_loop"
    /\ operations[p] = <<>>
    /\ IF opt[p].dry_run
       THEN UNCHANGED <<fs, loaded>>
       ELSE /\ loaded' = [loaded EXCEPT ![p] = SubSeq(@, 1, Len(@) - 1)]
            /\ fs' = WriteAt(fs, HistoryPath, StoreFile(SubSeq(loaded[p], 1, Len(loaded[p]) - 1)))
    /\ pc' = [pc EXCEPT ![p] = "undo_done"]
    /\ UNCHANGED <<clock, opt, stats, history, file_hashes, files, operations,
                   counts, fs0, lastrun, refused>>

\* undo_cleanup returns
UndoReturn(p) ==
    /\ pc[p] = "undo_done"
    /\ pc' = [pc EXCEPT ![p] = "idle"]
    /\ lastrun' = IF opt[p].dry_run THEN lastrun ELSE NoRun
    /\ opt' = [opt EXCEPT ![p] = NoOptions]
    /\ loaded' = [loaded EXCEPT ![p] = <<>>]
    /\ counts' = [counts EXCEPT ![p] = [success_count |-> 0, error_count |-> 0]]
    /\ fs0' = [fs0 EXCEPT ![p] = <<>>]
    /\ UNCHANGED <<fs, clock, stats, history, file_hashes, files, operations,
                   refused>>

\* sys.exit(1): the process ends with nothing done
UndoExit(p) ==
    /\ pc[p] = "exit_1"
    /\ pc' = [pc EXCEPT ![p] = "idle"]
    /\ opt' = [opt EXCEPT ![p] = NoOptions]
    /\ fs0' = [fs0 EXCEPT ![p] = <<>>]
    /\ UNCHANGED <<fs, clock, stats, history, file_hashes, files, operations,
                   loaded, counts, lastrun, refused>>

\* ----------------------------------------------------- specification ----
\* the steps of run() after it started
Pipeline(p) ==
    \/ CleanTempFiles(p)
    \/ CleanTempStep(p)
    \/ CleanTempDone(p)
    \/ FindDuplicates(p)
    \/ DuplicateStep(p)
    \/ DuplicatesDone(p)
    \/ CategorizeFiles(p)
    \/ CategorizeStep(p)
    \/ CategorizeDone(p)
    \/ SaveHistory(p)
    \/ SaveWrite(p)
    \/ RunReturn(p)

\* the steps of undo_cleanup after it started
Reversal(p) ==
    \/ UndoRead(p)
    \/ UndoStep(p)
    \/ UndoWrite(p)
    \/ UndoReturn(p)
    \/ UndoExit(p)

Step(p) ==
    \/ \E o \in Options : Run(p, o)
    \/ Pipeline(p)
    \/ \E dry_run \in BOOLEAN : Undo(p, dry_run)
    \/ Reversal(p)

\* one invocation at a time (the tool assumes exclusive access to the directories)
Next ==
    \/ \E d \in Downloadable : Download(d.name, d.file)
    \/ Step(Main)

Spec == Init /\ [][Next]_vars

\* a source directory that holds the three files, before the first invocation
InitMerge ==
    /\ fs = [q \in {<<"src", d.name>> : d \in MergeDownloadable} |->
               (CHOOSE d \in MergeDownloadable : d.name = q[2]).file]
    /\ clock = 0
    /\ pc = [p \in Procs |-> "idle"]
    /\ opt = [p \in Procs |-> NoOptions]
    /\ stats = [p \in Procs |-> ZeroStats]
    /\ history = [p \in Procs |-> <<>>]
    /\ file_hashes = [p \in Procs |-> <<>>]
    /\ files = [p \in Procs |-> <<>>]
    /\ operations = [p \in Procs |-> <<>>]
    /\ loaded = [p \in Procs |-> <<>>]
    /\ counts = [p \in Procs |-> [success_count |-> 0, error_count |-> 0]]
    /\ fs0 = [p \in Procs |-> <<>>]
    /\ lastrun = NoRun
    /\ refused = [p \in Procs |-> 0]

\* one invocation at a time, every run with --merge-pdfs
NextMerge ==
    \/ clock < MaxMergeEvents /\ \E d \in MergeDownloadable : Download(d.name, d.file)
    \/ clock < MaxMergeEvents /\ \E o \in MergeOptions : Run(Main, o)
    \/ Pipeline(Main)
    \/ MergePdfFiles(Main)
    \/ clock < MaxMergeEvents /\ \E dry_run \in BOOLEAN : Undo(Main, dry_run)
    \/ Reversal(Main)

SpecMerge == InitMerge /\ [][NextMerge]_vars

ExampleDirectory ==
    [q \in {<<"src", d.name>> : d \in ExampleFiles} |->
       (CHOOSE d \in ExampleFiles : d.name = q[2]).file]

\* the directory of the end-to-end example, before the first invocation
InitExample ==
    /\ fs = ExampleDirectory
    /\ clock = 0
    /\ pc = [p \in Procs |-> "idle"]
    /\ opt = [p \in Procs |-> NoOptions]
    /\ stats = [p \in Procs |-> ZeroStats]
    /\ history = [p \in Procs |-> <<>>]
    /\ file_hashes = [p \in Procs |-> <<>>]
    /\ files = [p \in Procs |-> <<>>]
    /\ operations = [p \in Procs |-> <<>>]
    /\ loaded = [p \in Procs |-> <<>>]
    /\ counts = [p \in Procs |-> [success_count |-> 0, error_count |-> 0]]
    /\ fs0 = [p \in Procs |-> <<>>]
    /\ lastrun = NoRun
    /\ refused = [p \in Procs |-> 0]

\* the non-preview run with the default flags on the directory of the example
NextExample ==
    \/ fs = ExampleDirectory /\ Run(Main, NoOptions)
    \/ Pipeline(Main)

SpecExample == InitExample /\ [][NextExample]_vars

\* the files of the directory two invocations race on: b.dmg and c.xyz with the
\* same bytes
RaceFiles == {d \in Downloadable : d.file.readable /\ d.file.bytes = 1}

\* a source directory that holds these files
RaceDirectory ==
    [q \in {<<"src", d.name>> : d \in RaceFiles} |->
       (CHOOSE d \in RaceFiles : d.name = q[2]).file]

\* the same directory after a run without a failure under RaceOptions: c.xyz
\* in Others, b.dmg in Archives, and the session of that run in the history file
RaceCleaned ==
    LET b == [base |-> "b", sfx |-> <<>>, ext |-> ".dmg"]
        c == [base |-> "c", sfx |-> <<>>, ext |-> ".xyz"]
        ops == <<MoveOp(SrcPath(c), <<"Others", c>>, 0),
                 MoveOp(SrcPath(b), <<"Archives", b>>, 0)>>
        st == [ZeroStats EXCEPT !.categorized = 2]
        moved == ShutilMove(ShutilMove(RaceDirectory, SrcPath(c), <<"Others", c>>),
                            SrcPath(b), <<"Archives", b>>)
    IN  WriteAt(moved, HistoryPath, StoreFile(<<Session(0, ops, st)>>))

\* the directory before the first invocation, or after one run
InitRace ==
    /\ fs \in {RaceDirectory, RaceCleaned}
    /\ clock = 0
    /\ pc = [p \in Procs |-> "idle"]
    /\ opt = [p \in Procs |-> NoOptions]
    /\ stats = [p \in Procs |-> ZeroStats]
    /\ history = [p \in Procs |-> <<>>]
    /\ file_hashes = [p \in Procs |-> <<>>]
    /\ files = [p \in Procs |-> <<>>]
    /\ operations = [p \in Procs |-> <<>>]
    /\ loaded = [p \in Procs |-> <<>>]
    /\ counts = [p \in Procs |-> [success_count |-> 0, error_count |-> 0]]
    /\ fs0 = [p \in Procs |-> <<>>]
    /\ lastrun = IF fs = RaceDirectory THEN NoRun ELSE [valid |-> TRUE, fs0 |-> RaceDirectory]
    /\ refused = [p \in Procs |-> 0]

\* the flags of the runs that race: --no-temp-clean --no-duplicates, so that a
\* run categorizes and saves its history
RaceOptions == [NoOptions EXCEPT !.no_temp_clean = TRUE, !.no_duplicates = TRUE]

\* the steps of run() under these flags
RacePipeline(p) ==
    \/ CleanTempFiles(p)
    \/ FindDuplicates(p)
    \/ CategorizeFiles(p)
    \/ CategorizeStep(p)
    \/ CategorizeDone(p)
    \/ SaveHistory(p)
    \/ SaveWrite(p)
    \/ RunReturn(p)

\* the invocations are interchangeable: one that starts while no other is running
\* is Main
Starts(p) == p = Main \/ pc[Main] # "idle"

\* two invocations on the same source directory, their steps interleaved:
\* non-preview runs under RaceOptions and non-preview undos
NextRace ==
    \/ clock < MaxRaceEvents /\ \E p \in Procs : Starts(p) /\ Run(p, RaceOptions)
    \/ clock < MaxRaceEvents /\ \E p \in Procs : Starts(p) /\ Undo(p, FALSE)
    \/ \E p \in Procs : RacePipeline(p)
    \/ \E p \in Procs : Reversal(p)

SpecRace == InitRace /\ [][NextRace]_vars

\* a preview run whose summary is on the screen (the invocation has not returned
\* yet) while a second invocation runs from start to end on the same directory
NextPreview ==
    \/ \E d \in Downloadable : Download(d.name, d.file)
    \/ Step("first")
    \/ /\ pc["first"] = "print_summary"
       /\ opt["first"].dry_run
       /\ Step("second")

SpecPreview == Init /\ [][NextPreview]_vars

TypeOK == clock \in 0..MaxEvents

\* ------------------------------------------------------------ claims ----
\* the persisted session list of filesystem f
StoreOf(f) == IF Exists(f, HistoryPath) THEN f[HistoryPath].sessions ELSE <<>>

Last(s) == s[Len(s)]

\* the files under <target>
TargetFiles(f) == {q \in DOMAIN f : q[1] # "src"}

\* the session a non-preview undo_cleanup that has ended was reversing
UndoneSession(p) == Last(StoreOf(fs0[p]))

MoveOps(ops) == {i \in 1..Len(ops) : ops[i].action = "move"}

DeleteOps(ops) == {i \in 1..Len(ops) : ops[i].action = "delete"}

\* C1: undo is session-scoped and LIFO. After a first run that created the
\* history and a second non-preview run, one undo_cleanup leaves the first run's
\* session in the store and the first run's moved files where they are.
C1_UndoIsLIFO ==
    \A p \in Procs :
       (/\ pc[p] = "undo_done"
        /\ ~opt[p].dry_run
        /\ lastrun.valid
        /\ Len(StoreOf(lastrun.fs0)) = 1)
       => /\ StoreOf(fs) = StoreOf(lastrun.fs0)
          /\ \A q \in TargetFiles(lastrun.fs0) : Exists(fs, q) /\ fs[q] = lastrun.fs0[q]

\* C2: in non-preview mode a successful move_file lands on a path that did not
\* exist before the call: the requested name, or the requested name with the
\* least suffix _k such that the name and all of _1 .. _(k-1) were taken; the
\* moved file keeps its content and every other file stays as it was.
C2_MoveFileNeverOverwrites ==
    [][\A p \in Procs :
          (/\ ~opt[p].dry_run
           /\ Len(history'[p]) = Len(history[p]) + 1
           /\ Last(history'[p]).action = "move")
          => LET op == Last(history'[p])
                 requested == <<op.destination[1], op.source[2]>>
             IN  /\ ~Exists(fs, op.destination)
                 /\ Exists(fs', op.destination)
                 /\ fs'[op.destination] = fs[op.source]
                 /\ \A q \in DOMAIN fs \ {op.source} : Exists(fs', q) /\ fs'[q] = fs[q]
                 /\ \/ op.destination = requested
                    \/ \E k \in 1..(Cardinality(DOMAIN fs) + 1) :
                          /\ op.destination = Numbered(requested, k)
                          /\ Exists(fs, requested)
                          /\ \A j \in 1..(k - 1) : Exists(fs, Numbered(requested, j))]_vars

\* C2 witness: a non-preview run has put name.ext and name_1.ext in one folder
C2_Witness ==
    \E p \in Procs, q \in DOMAIN fs :
       /\ pc[p] = "print_summary"
       /\ ~opt[p].dry_run
       /\ q[1] # "src"
       /\ q[2].sfx = <<>>
       /\ Exists(fs, Numbered(q, 1))
       /\ \E i \in MoveOps(history[p]) : history[p][i].destination = Numbered(q, 1)

\* C3: a non-preview run with no failure and no Delete, then undo_cleanup with
\* nothing changed in between and no move refused: every file the run moved is
\* back at its source path with the content it had before the run, and the
\* summary counts one success per Move and no failure.
C3_RunUndoRoundTrip ==
    \A p \in Procs :
       (/\ pc[p] = "undo_done"
        /\ ~opt[p].dry_run
        /\ lastrun.valid
        /\ refused[p] = 0
        /\ UndoneSession(p).stats.errors = 0
        /\ DeleteOps(UndoneSession(p).operations) = {})
       => LET ops == UndoneSession(p).operations
          IN  /\ counts[p] = [success_count |-> Len(ops), error_count |-> 0]
              /\ \A i \in 1..Len(ops) :
                    /\ Exists(fs, ops[i].source)
                    /\ fs[ops[i].source] = lastrun.fs0[ops[i].source]

\* run() has done all its phases and is about to return
RunEnded(p) == pc[p] = "print_summary"

RunPcs ==
    {"clean_temp_files", "clean_temp_loop", "find_duplicates", "duplicates_loop",
     "categorize_files", "categorize_loop", "merge_pdf_files", "save_history", "save_write",
     "print_summary"}

TempFiles(f) == {q \in SourceFiles(f) : IsTemp(q)}

NonTempFiles(f) == {q \in SourceFiles(f) : ~IsTemp(q)}

Content(file) == [bytes |-> file.bytes, sessions |-> file.sessions]

\* the non-temp files of f with the bytes of q
SameBytes(f, q) == {r \in NonTempFiles(f) : Content(f[r]) = Content(f[q])}

\* the entries of the log of p that move q into folder
MovesTo(p, q, folder) ==
    {i \in MoveOps(history[p]) :
        history[p][i].source = q /\ history[p][i].destination[1] = folder}

\* q of the directory the run started on is now in folder, as the log says
EndsIn(p, q, folder) ==
    \E i \in MovesTo(p, q, folder) :
       /\ Exists(fs, history[p][i].destination)
       /\ fs[history[p][i].destination] = fs0[p][q]
       /\ history[p][i].destination[2].base = q[2].base
       /\ history[p][i].destination[2].ext = q[2].ext

\* the first file of the group of q in the order find_duplicates met the files
FirstMet(p, group) ==
    \E i \in 1..Len(file_hashes[p]) :
       /\ {file_hashes[p][i].file_list[j] : j \in 1..Len(file_hashes[p][i].file_list)} = group
       /\ \A q \in group :
             EndsIn(p, q, "Duplicates") <=> q # Head(file_hashes[p][i].file_list)

Readable(f) == {q \in NonTempFiles(f) : f[q].readable}

DeleteCount(p, q) == Cardinality({i \in DeleteOps(history[p]) : history[p][i].source = q})

\* C5 as stated: after a run with temp cleanup no temp file is left in the source
\* directory and each one has exactly one Delete entry in the log.
C5_AsStated ==
    \A p \in Procs :
       (RunEnded(p) /\ ~opt[p].no_temp_clean)
       => /\ TempFiles(fs) = {}
          /\ \A q \in TempFiles(fs0[p]) : DeleteCount(p, q) = 1

\* C5 amended: after a non-preview run with temp cleanup, every temp file whose
\* delete did not fail is gone from the source directory and has exactly one
\* Delete entry in the log; a temp file whose delete failed is still there
\* unchanged, has no entry and is counted in errors; temp_removed is the number of
\* Delete entries.
C5_TempFilesRemoved ==
    \A p \in Procs :
       (RunEnded(p) /\ ~opt[p].no_temp_clean /\ ~opt[p].dry_run)
       => /\ \A q \in TempFiles(fs0[p]) :
                \/ ~Exists(fs, q) /\ DeleteCount(p, q) = 1
                \/ /\ Exists(fs, q) /\ fs[q] = fs0[p][q]
                   /\ DeleteCount(p, q) = 0
                   /\ stats[p].errors >= 1
          /\ TempFiles(fs) \subseteq TempFiles(fs0[p])
          /\ stats[p].errors = 0 => TempFiles(fs) = {}
          /\ stats[p].temp_removed = Cardinality(DeleteOps(history[p]))

\* C5 witness: a non-preview run has deleted a temp file
C5_Witness ==
    \E p \in Procs :
       /\ RunEnded(p) /\ ~opt[p].no_temp_clean /\ ~opt[p].dry_run
       /\ \E q \in TempFiles(fs0[p]) : ~Exists(fs, q) /\ DeleteCount(p, q) = 1

\* the order of the categories the claim names
C6_Order == <<"Images", "Documents", "PDFs", "Archives", "Installers", "Video", "Audio", "Code">>

\* the extensions get_category is tried on
C6_Extensions ==
    UNION {CATEGORIES[c] : c \in DOMAIN CATEGORIES} \cup TEMP_EXTENSIONS
    \cup {".xyz", ".TMP", ".DMG", ".JPG", ""}

C6_Expected(ext) ==
    LET hits == {i \in 1..Len(C6_Order) : Lower(ext) \in CATEGORIES[C6_Order[i]]}
    IN  IF hits = {} THEN "Others"
        ELSE C6_Order[CHOOSE i \in hits : \A j \in hits : i <= j]

C6_Named(ext) == <<"src", [base |-> "x", sfx |-> <<>>, ext |-> ext]>>

\* get_category on every extension: the first category of the order that holds it
C6_FirstMatch ==
    /\ \A ext \in C6_Extensions : get_category(C6_Named(ext)) = C6_Expected(ext)
    /\ get_category(C6_Named(".dmg")) = "Archives"
    /\ get_category(C6_Named(".DMG")) = "Archives"
    /\ get_category(C6_Named(".xyz")) = "Others"
    /\ get_category(C6_Named(".json")) = "Code"

\* q was not moved as a duplicate
NotDuplicate(p, q) == MovesTo(p, q, "Duplicates") = {}

\* the folders under <target> that hold q after the run
FoldersOf(p, q) ==
    {history[p][i].destination[1] : i \in {j \in MoveOps(history[p]) : history[p][j].source = q}}

\* C6 as stated: get_category gives the first category of the fixed order whose
\* set holds the lower-cased extension, Others when none does (.dmg is Archives);
\* after a run every non-temp file not moved as a duplicate is under exactly the
\* folder of that category.
C6_AsStated ==
    \A p \in Procs :
       RunEnded(p)
       => /\ C6_FirstMatch
          /\ \A q \in NonTempFiles(fs0[p]) :
                NotDuplicate(p, q)
                => EndsIn(p, q, C6_Expected(Suffix(q))) /\ Cardinality(FoldersOf(p, q)) = 1

\* C6 amended: get_category as stated; after a non-preview run every non-temp file
\* that was not moved as a duplicate and whose move did not fail is under exactly
\* the folder of that category, and a file whose move failed is still in the
\* source directory (unchanged, save for the history file that save_history
\* rewrites) and counted in errors.
C6_Categorized ==
    \A p \in Procs :
       (RunEnded(p) /\ ~opt[p].dry_run)
       => /\ C6_FirstMatch
          /\ \A q \in NonTempFiles(fs0[p]) :
                NotDuplicate(p, q)
                => \/ /\ EndsIn(p, q, C6_Expected(Suffix(q)))
                      /\ Cardinality(FoldersOf(p, q)) = 1
                      /\ ~Exists(fs, q) \/ q = HistoryPath
                   \/ /\ FoldersOf(p, q) = {}
                      /\ Exists(fs, q)
                      /\ fs[q] = fs0[p][q] \/ q = HistoryPath
                      /\ stats[p].errors >= 1

\* C6 witness: a non-preview run has put the .dmg file in Archives and the .xyz
\* file in Others
C6_Witness ==
    \E p \in Procs :
       /\ RunEnded(p) /\ ~opt[p].dry_run
       /\ \E q, r \in NonTempFiles(fs0[p]) :
             /\ Suffix(q) = ".dmg" /\ EndsIn(p, q, "Archives")
             /\ Suffix(r) = ".xyz" /\ EndsIn(p, r, "Others")

\* the stats of a preview run started on directory f with options o
PreviewStats(f, o) ==
    [categorized |-> Cardinality(NonTempFiles(f)),
     temp_removed |-> IF o.no_temp_clean THEN 0 ELSE Cardinality(TempFiles(f)),
     duplicates_found |->
        IF o.no_duplicates THEN 0
        ELSE Cardinality(Readable(f)) - Cardinality({Content(f[q]) : q \in Readable(f)}),
     pdfs_merged |-> 0,
     errors |-> 0]

\* C7: at every point of a run with dry_run set the filesystem, the history file
\* included, is as it was when the run started; the stats it ends with are a
\* function of that directory and the options, so two preview runs in a row on
\* the same directory end with the same stats.
C7_PreviewChangesNothing ==
    \A p \in Procs :
       (pc[p] \in RunPcs /\ opt[p].dry_run)
       => /\ fs = fs0[p]
          /\ RunEnded(p) => stats[p] = PreviewStats(fs0[p], opt[p])

\* C7 witness: a preview run has logged a delete, a duplicate move and the
\* categorization of both copies over an existing history
C7_Witness ==
    \E p \in Procs :
       /\ RunEnded(p) /\ opt[p].dry_run
       /\ Len(history[p]) >= 2
       /\ stats[p].categorized + stats[p].duplicates_found + stats[p].temp_removed >= 2
       /\ fs = fs0[p]

\* C8: after a completed non-preview run that logged an operation, the persisted
\* list is the list persisted before the run followed by one new session holding
\* the run's log and stats.
C8_HistoryAppendOnly ==
    \A p \in Procs :
       (RunEnded(p) /\ ~opt[p].dry_run /\ history[p] # <<>>)
       => StoreOf(fs) = Append(StoreOf(fs0[p]), Session(clock, history[p], stats[p]))

\* C9: a non-preview undo_cleanup on a non-empty history goes through every
\* operation of the last session, whatever fails, and then leaves in the store
\* the list it read without its last session.
C9_UndoAlwaysPops ==
    \A p \in Procs :
       (pc[p] = "undo_done" /\ ~opt[p].dry_run)
       => LET read == StoreOf(fs0[p])
          IN  /\ read # <<>>
              /\ operations[p] = <<>>
              /\ counts[p].success_count + counts[p].error_count = Len(Last(read).operations)
              /\ Exists(fs, HistoryPath)
              /\ StoreOf(fs) = SubSeq(read, 1, Len(read) - 1)

\* C9 witness: an undo with a failed reversal has popped the second of two sessions
C9_Witness ==
    \E p \in Procs :
       /\ pc[p] = "undo_done" /\ ~opt[p].dry_run
       /\ counts[p].error_count >= 1
       /\ Len(StoreOf(fs0[p])) = 2
       /\ Len(StoreOf(fs)) = 1

\* C10: when undo_cleanup reverses a Move and a file is at the logged source path,
\* the content of that file is still on disk after the reversal.
C10_UndoNeverOverwrites ==
    [][\A p \in Procs :
          (/\ pc[p] = "undo_loop"
           /\ operations[p] # <<>>
           /\ operations'[p] # operations[p]
           /\ ~opt[p].dry_run
           /\ Head(operations[p]).action = "move"
           /\ Exists(fs, Head(operations[p]).source))
          => \E q \in DOMAIN fs' : fs'[q] = fs[Head(operations[p]).source]]_vars

\* the counters of the summary the claim compares
Counters(st) ==
    [categorized |-> st.categorized, temp_removed |-> st.temp_removed,
     duplicates_found |-> st.duplicates_found, errors |-> st.errors]

\* the logged operations without their timestamps and their order
Logged(ops) ==
    {[action |-> ops[i].action, source |-> ops[i].source, destination |-> ops[i].destination] :
        i \in 1..Len(ops)}

SameFlags(o1, o2) == [o1 EXCEPT !.dry_run = FALSE] = [o2 EXCEPT !.dry_run = FALSE]

\* C11: a preview run and a failure-free non-preview run with the same flags
\* started on the same directory state end with the same counters (categorized,
\* temp_removed, duplicates_found, errors) and the same logged operations.
C11_PreviewReflectsOutcome ==
    \A p, q \in Procs :
       (/\ RunEnded(p) /\ opt[p].dry_run
        /\ RunEnded(q) /\ ~opt[q].dry_run
        /\ SameFlags(opt[p], opt[q])
        /\ fs0[q] = fs0[p]
        /\ stats[q].errors = 0)
       => /\ Counters(stats[p]) = Counters(stats[q])
          /\ Logged(history[p]) = Logged(history[q])

LoopPcs == {"clean_temp_loop", "duplicates_loop", "categorize_loop"}

\* the counter of successes of the phase invocation p is in
PhaseCounter(p, st) ==
    CASE pc[p] = "clean_temp_loop" -> st.temp_removed
      [] pc[p] = "duplicates_loop" -> st.duplicates_found
      [] pc[p] = "categorize_loop" -> st.categorized

\* C12: a step of a phase's loop on a file either fails, and then the log, the
\* filesystem and every counter but errors are as before, errors is one more and
\* the loop is at its next file; or it appends exactly one entry for that file
\* and adds one to the counter of the phase, and in a non-preview run the logged
\* mutation has been done (the file is gone from its source path and, for a
\* Move, is at the logged destination, which was free).
C12_FailureLeavesLogIntact ==
    [][\A p \in Procs :
          (pc[p] \in LoopPcs /\ files[p] # <<>> /\ files'[p] # files[p])
          => /\ pc'[p] = pc[p]
             /\ files'[p] = Tail(files[p])
             /\ IF stats'[p].errors # stats[p].errors
                THEN /\ stats'[p] = [stats[p] EXCEPT !.errors = @ + 1]
                     /\ history'[p] = history[p]
                     /\ fs' = fs
                ELSE /\ Len(history'[p]) = Len(history[p]) + 1
                     /\ SubSeq(history'[p], 1, Len(history[p])) = history[p]
                     /\ Last(history'[p]).source = Head(files[p])
                     /\ PhaseCounter(p, stats'[p]) = PhaseCounter(p, stats[p]) + 1
                     /\ opt[p].dry_run => fs' = fs
                     /\ ~opt[p].dry_run
                        => LET op == Last(history'[p])
                           IN  /\ Exists(fs, op.source)
                               /\ ~Exists(fs', op.source)
                               /\ op.action = "move"
                                  => /\ ~Exists(fs, op.destination)
                                     /\ Exists(fs', op.destination)
                                     /\ fs'[op.destination] = fs[op.source]]_vars

\* C12 witness: a non-preview run has ended with a failed operation, and the
\* files after the failed one were still moved and logged
C12_Witness ==
    \E p \in Procs :
       /\ RunEnded(p) /\ ~opt[p].dry_run
       /\ stats[p].errors = 1
       /\ stats[p].categorized >= 1
       /\ Len(history[p]) = stats[p].categorized
       /\ \E q \in NonTempFiles(fs0[p]) :
             /\ stats[p].temp_removed = 0 /\ TempFiles(fs0[p]) # {} /\ ~opt[p].no_temp_clean
             /\ EndsIn(p, q, get_category(q))

\* the non-temp files of f whose digest cannot be computed
Unreadable(f) == {q \in NonTempFiles(f) : ~f[q].readable}

\* the files find_duplicates has put in a group
Grouped(p) ==
    UNION {{file_hashes[p][i].file_list[j] : j \in 1..Len(file_hashes[p][i].file_list)} :
              i \in 1..Len(file_hashes[p])}

\* C13: after a run with duplicate detection on a directory that holds a
\* non-temp file whose digest cannot be computed, that file is in no duplicate
\* group, the run has gone through categorization (the file is in its category
\* folder unless its move failed), and errors counts the hash failure.
C13_HashFailureCounted ==
    \A p \in Procs :
       (RunEnded(p) /\ ~opt[p].no_duplicates /\ ~opt[p].dry_run)
       => \A q \in Unreadable(fs0[p]) :
             /\ q \notin Grouped(p)
             /\ NotDuplicate(p, q)
             /\ EndsIn(p, q, get_category(q)) \/ Exists(fs, q)
             /\ stats[p].errors >= 1

\* C14: at the end of undo_cleanup, preview or not, the reversals counted as
\* successful plus those counted as could-not-reverse are as many as the
\* operations recorded in the session it processed, whatever their kind.
C14_UndoCountsEveryOperation ==
    \A p \in Procs :
       pc[p] = "undo_done"
       => counts[p].success_count + counts[p].error_count
             = Len(UndoneSession(p).operations)

UndoPcs == {"undo_cleanup", "undo_loop", "undo_done", "exit_1"}

\* C15: at every point of undo_cleanup with dry_run set the filesystem, the
\* history store included, is as it was when it started, and it ends with one
\* success counted per Move of the last session and one failure per Delete,
\* whether or not the logged destinations exist.
C15_UndoPreviewChangesNothing ==
    \A p \in Procs :
       (pc[p] \in UndoPcs /\ opt[p].dry_run)
       => /\ fs = fs0[p]
          /\ pc[p] = "undo_done"
             => /\ StoreOf(fs) # <<>>
                /\ counts[p].success_count = Cardinality(MoveOps(Last(StoreOf(fs)).operations))
                /\ counts[p].error_count = Cardinality(DeleteOps(Last(StoreOf(fs)).operations))

\* C15 witness: a preview undo has ended on a session with a Delete and with
\* Moves whose destinations are gone (the moved PDFs were merged)
C15_Witness ==
    \E p \in Procs :
       /\ pc[p] = "undo_done" /\ opt[p].dry_run
       /\ LET ops == Last(StoreOf(fs)).operations
          IN  /\ DeleteOps(ops) # {}
              /\ \E i \in MoveOps(ops) : ~Exists(fs, ops[i].destination)
              /\ counts[p].success_count >= 2
              /\ counts[p].error_count >= 1

\* C16: undo_cleanup started with no history file, or with one that holds an
\* empty list, ends in sys.exit(1) and in no other way, and the filesystem is
\* then as it was: no file moved, no history file created or rewritten.
C16_UndoWithoutHistoryIsFatal ==
    \A p \in Procs :
       pc[p] \in {"undo_loop", "undo_done", "exit_1"}
       => IF StoreOf(fs0[p]) = <<>>
          THEN /\ pc[p] = "exit_1"
               /\ fs = fs0[p]
               /\ counts[p] = [success_count |-> 0, error_count |-> 0]
          ELSE pc[p] # "exit_1"

\* C16 witness: undo_cleanup has ended in sys.exit(1) on a history file that
\* holds an empty list, left by an earlier undo of the only session
C16_Witness ==
    \E p \in Procs :
       /\ pc[p] = "exit_1"
       /\ Exists(fs, HistoryPath)
       /\ fs[HistoryPath].sessions = <<>>
       /\ SourceFiles(fs) # {HistoryPath}

\* C19: at every point of a run without PDF merging, preview or not, temp_removed
\* is the number of Delete entries of the session log and duplicates_found +
\* categorized is the number of its Move entries.
C19_CountersMatchLog ==
    \A p \in Procs :
       (pc[p] \in RunPcs /\ ~opt[p].merge_pdfs)
       => /\ stats[p].temp_removed = Cardinality(DeleteOps(history[p]))
          /\ stats[p].duplicates_found + stats[p].categorized
                = Cardinality(MoveOps(history[p]))
          /\ Len(history[p]) = Cardinality(DeleteOps(history[p]) \cup MoveOps(history[p]))

\* C19 witness: a non-preview run has ended with a deleted temp file, a
\* categorized file and a failed operation
C19_Witness ==
    \E p \in Procs :
       /\ RunEnded(p) /\ ~opt[p].dry_run
       /\ stats[p].temp_removed = 1
       /\ stats[p].categorized >= 1
       /\ stats[p].errors >= 1

\* C20: no run logs a Move whose source has a temp extension, and after a run
\* every temp-extension file whose delete was not done (temp cleanup disabled, or
\* the delete failed) is at its path in the source directory with the content it
\* had.
C20_TempFilesNeverMoved ==
    \A p \in Procs :
       pc[p] \in RunPcs
       => /\ \A i \in MoveOps(history[p]) :
                Lower(history[p][i].source[2].ext) \notin TEMP_EXTENSIONS
          /\ RunEnded(p)
             => \A q \in SourceFiles(fs0[p]) :
                   (/\ Lower(q[2].ext) \in TEMP_EXTENSIONS
                    /\ opt[p].no_temp_clean \/ DeleteCount(p, q) = 0)
                   => Exists(fs, q) /\ fs[q] = fs0[p][q]

\* C20 witness: a non-preview run with temp cleanup disabled has categorized a
\* file and left the temp file where it was
C20_Witness ==
    \E p \in Procs :
       /\ RunEnded(p) /\ ~opt[p].dry_run /\ opt[p].no_temp_clean
       /\ stats[p].categorized >= 1
       /\ \E q \in TempFiles(fs0[p]) : Exists(fs, q) /\ q[2].ext = ".TMP"

\* the path of a file of the example
ExamplePath(folder, base, ext) == <<folder, [base |-> base, sfx |-> <<>>, ext |-> ext]>>

\* the file of the example first at path from is now at path to, and nowhere else
ExampleMoved(p, from, to) ==
    /\ Exists(fs, to)
    /\ fs[to] = fs0[p][from]
    /\ ~Exists(fs, from)

\* the outcome the example gives for the run of p
ExampleOutcome(p) ==
    LET photo == ExamplePath("src", "photo", ".jpg")
        copy == ExamplePath("src", "photo_copy", ".jpg")
    IN  /\ ~Exists(fs, ExamplePath("src", "partial", ".crdownload"))
        /\ \/ /\ ExampleMoved(p, photo, ExamplePath("Images", "photo", ".jpg"))
              /\ ExampleMoved(p, copy, ExamplePath("Duplicates", "photo_copy", ".jpg"))
           \/ /\ ExampleMoved(p, copy, ExamplePath("Images", "photo_copy", ".jpg"))
              /\ ExampleMoved(p, photo, ExamplePath("Duplicates", "photo", ".jpg"))
        /\ ExampleMoved(p, ExamplePath("src", "report", ".pdf"),
                        ExamplePath("PDFs", "report", ".pdf"))
        /\ ExampleMoved(p, ExamplePath("src", "notes", ".txt"),
                        ExamplePath("Documents", "notes", ".txt"))
        /\ Cardinality(TargetFiles(fs)) = 4
        /\ stats[p] = [categorized |-> 3, temp_removed |-> 1, duplicates_found |-> 1,
                       pdfs_merged |-> 0, errors |-> 0]

\* the run of p started on the directory of the example
OnExample(p) == fs0[p] = ExampleDirectory

RunWrites(p) == pc[p] = "save_write" /\ pc'[p] = "print_summary"

UndoWrites(p) == pc[p] = "undo_loop" /\ pc'[p] = "undo_done" /\ ~opt[p].dry_run

\* invocation q has written the history file and has not returned yet
RunWritten(q) == pc[q] = "print_summary" /\ ~opt[q].dry_run /\ history[q] # <<>>

UndoWritten(q) == pc[q] = "undo_done" /\ ~opt[q].dry_run

\* the list without its last session
Popped(list) == SubSeq(list, 1, Len(list) - 1)

\* C18: the history file is rewritten whole from what the writer read, by
\* save_history and by undo_cleanup alike, whatever was written in between.
\* So when two invocations on the same source directory have read the same
\* store and the other one has written already, the store after the later write
\* reflects the later writer only: of two runs one session is kept, a run's
\* session is dropped by the later undo, and the session an undo removed is
\* present again after the later run.
C18_LaterWriterWins ==
    [][\A p \in Procs, q \in Procs :
          (p # q /\ (RunWrites(p) \/ UndoWrites(p))) =>
             /\ StoreOf(fs') = IF RunWrites(p)
                               THEN Append(loaded[p], Session(clock, history[p], stats[p]))
                               ELSE Popped(loaded[p])
             /\ (RunWritten(q) /\ loaded[q] = loaded[p] /\ RunWrites(p)) =>
                   /\ Len(StoreOf(fs')) = Len(loaded[q]) + 1
                   /\ Last(StoreOf(fs')).operations = history[p]
             /\ (RunWritten(q) /\ loaded[q] = loaded[p] /\ UndoWrites(p)) =>
                   StoreOf(fs') = Popped(loaded[q])
             /\ (UndoWritten(q) /\ loaded[p] # <<>> /\ loaded[q] = Popped(loaded[p])
                   /\ RunWrites(p)) =>
                   /\ Len(StoreOf(fs')) = Len(loaded[q]) + 2
                   /\ StoreOf(fs')[Len(loaded[p])] = Last(loaded[p])
             /\ (UndoWritten(q) /\ loaded[p] # <<>> /\ loaded[q] = Popped(loaded[p])
                   /\ UndoWrites(p)) =>
                   StoreOf(fs') = loaded[q]]_vars

\* C18 witness: two runs read the same store, both have written it and neither
\* has returned; the store holds one session more than they read, the session
\* of "second", and the session of "first" is missing
C18_Witness ==
    /\ RunWritten("first") /\ RunWritten("second")
    /\ loaded["first"] = loaded["second"]
    /\ history["first"] # history["second"]
    /\ Len(StoreOf(fs)) = Len(loaded["first"]) + 1
    /\ Last(StoreOf(fs)).operations = history["second"]

====
